---- MODULE Spec2Model ----
(***************************************************************************)
(* The "New Database" extension: one command, createDatabase, in its three *)
(* revisions.                                                              *)
(*   "tracker" : src/unnamed/part_001, the event-correlation establisher   *)
(*               (connectionTracker, doConnect, errorOnTimeout)            *)
(*   "sqlops"  : src/src/databaseCreator.ts, ConnectionContext wrapper     *)
(*   "azdata"  : src/unnamed/part_000, ConnectionContext wrapper with      *)
(*               toConnectionProfile                                       *)
(* Every action is one run-to-completion step of the JavaScript event loop *)
(* (from one resumption to the next await on a host call).                 *)
(***************************************************************************)
EXTENDS Integers, Sequences, FiniteSets, TLC

\* ---------------------------------------------------------------- bounds
MaxInvocations == 2
MaxEvents == 2

Invocations == 1..MaxInvocations

\* ------------------------------------------------------------- constants
mssql == "MSSQL"
NameLimit == 124

Variants == {"tracker", "sqlops", "azdata"}

\* ------------------------------------------------------------ host values
NoOptions == [defined |-> FALSE, server |-> "", password |-> ""]
NoProfile == [defined |-> FALSE, providerName |-> "", id |-> "", options |-> NoOptions]
ExplorerProfile ==
    [defined |-> TRUE, providerName |-> mssql, id |-> "explorer",
     options |-> [defined |-> TRUE, server |-> "srvA", password |-> "pwA"]]
OtherExplorerProfile ==
    [defined |-> TRUE, providerName |-> "PGSQL", id |-> "explorer2",
     options |-> [defined |-> TRUE, server |-> "srvD", password |-> "pwD"]]

\* the argument the command receives: undefined from the command palette,
\* an ObjectExplorerContext from the context menu
Contexts ==
    { [defined |-> FALSE, connectionProfile |-> NoProfile],
      [defined |-> TRUE,  connectionProfile |-> NoProfile],
      [defined |-> TRUE,  connectionProfile |-> ExplorerProfile],
      [defined |-> TRUE,  connectionProfile |-> OtherExplorerProfile] }

\* what sqlops.connection.getCurrentConnection() can answer
CurrentConnections ==
    { NoProfile,
      [defined |-> TRUE, providerName |-> mssql, id |-> "active",
       options |-> [defined |-> TRUE, server |-> "srvB", password |-> ""]],
      [defined |-> TRUE, providerName |-> "PGSQL", id |-> "pg",
       options |-> [defined |-> TRUE, server |-> "srvC", password |-> ""]] }

\* what azdata.connection.getCurrentConnection() can answer
NoAzdataConnection ==
    [defined |-> FALSE, providerId |-> "", connectionId |-> "", options |-> NoOptions]
AzdataConnections ==
    { NoAzdataConnection,
      [defined |-> TRUE, providerId |-> mssql, connectionId |-> "active",
       options |-> [defined |-> TRUE, server |-> "srvB", password |-> ""]],
      [defined |-> TRUE, providerId |-> "PGSQL", connectionId |-> "pg",
       options |-> [defined |-> TRUE, server |-> "srvC", password |-> ""]],
      [defined |-> TRUE, providerId |-> mssql, connectionId |-> "bare",
       options |-> NoOptions] }

Credentials == { [password |-> "secret"] }

\* the answers of showQuickPick: an item, or undefined when dismissed
QuickPickItems ==
    { [defined |-> TRUE, label |-> "Yes", value |-> TRUE],
      [defined |-> TRUE, label |-> "No", value |-> FALSE],
      [defined |-> FALSE, label |-> "", value |-> FALSE] }

\* a database name is a sequence of characters
MaxNameLen == 3
NameAlphabet == {"a", "b", "]"}
ShortNames == UNION { [1..n -> NameAlphabet] : n \in 1..MaxNameLen }
LongName(n) == [k \in 1..n |-> "x"]

\* what the user can type into the name prompt (or cancel it: undefined)
NameInputs ==
    { [defined |-> FALSE, value |-> <<>>],
      [defined |-> TRUE, value |-> <<>>],
      [defined |-> TRUE, value |-> <<"S", "a", "l", "e", "s">>] }
    \cup { [defined |-> TRUE, value |-> v] : v \in ShortNames }
    \cup { [defined |-> TRUE, value |-> LongName(n)] : n \in NameLimit..(NameLimit + 2) }

\* the string made of the characters of s (split in halves: a name can be long)
RECURSIVE Str(_)
Str(s) ==
    IF Len(s) = 0 THEN ""
    ELSE IF Len(s) = 1 THEN s[1]
    ELSE Str(SubSeq(s, 1, Len(s) \div 2)) \o Str(SubSeq(s, Len(s) \div 2 + 1, Len(s)))

\* query results: column names and rows of cells (displayValue)
QueryResults ==
    { [columnInfo |-> <<"NoError">>, rows |-> << <<"1">> >>],
      [columnInfo |-> <<"NoError">>, rows |-> << >>],
      [columnInfo |-> <<"errormessage">>, rows |-> << <<"not an error">> >>],
      [columnInfo |-> <<"ErrorMessage">>, rows |-> << <<"database already exists">> >>],
      [columnInfo |-> <<"ErrorMessage", "Extra">>,
       rows |-> << <<"permission denied", "x">>, <<"second row", "y">> >>],
      [columnInfo |-> <<"ErrorMessage">>, rows |-> << >>],
      [columnInfo |-> << >>, rows |-> << >>] }

\* values a host call can throw / reject with
ThrownValues ==
    { [thrown |-> TRUE, isError |-> TRUE, message |-> "Query failed", value |-> ""],
      [thrown |-> TRUE, isError |-> FALSE, message |-> "", value |-> "connection lost"] }

ForeignUri == "file:///query1.sql"
\* (variation: the token does not take the counter)
Uri_NoCounter(n) == "untitled:createdb" \o ToString(0)

\* `untitled:createdb${this.counter++}`
Uri(n) == "untitled:createdb" \o ToString(n)
Uris == { Uri(n) : n \in 0..(MaxInvocations - 1) } \cup { ForeignUri }

NoCalls ==
    [getCurrentConnection |-> 0, getCredentials |-> 0, showQuickPick |-> 0,
     showInputBox |-> 0, startBackgroundOperation |-> 0, connect |-> 0,
     runQueryAndReturn |-> 0, release |-> 0]

NoThrow == [thrown |-> FALSE, isError |-> FALSE, message |-> "", value |-> ""]
NoResult == [columnInfo |-> << >>, rows |-> << >>]
NoReceived == [kind |-> "none", result |-> NoResult, error |-> NoThrow]

\* how a release call can end: normally, with a rejected promise, or by throwing
ReleaseOutcomes == {"ok", "rejects", "throws"}

\* onConnectionComplete summaries: a connection id, or an error message only
Summaries ==
    { [ownerUri |-> u, connectionId |-> c.id, errorMessage |-> c.msg] :
        u \in Uris, c \in { [id |-> "conn1", msg |-> ""], [id |-> "", msg |-> "Login failed"] } }

\* ----------------------------------------------------------------- state
VARIABLES
    variant,            \* which revision of databaseCreator.ts runs
    dbCreator,          \* extension.ts: number of DatabaseCreator instances built
    listeners,          \* registerOnConnectionComplete registrations
    counter,            \* DatabaseCreator.counter
    connectionTracker,  \* Map<string, Deferred>: pairs <<uri, invocation owning the Deferred>>
    deferred,           \* state of the Deferred made by each doConnect
    pc,                 \* where each invocation is suspended
    context,            \* argument of the command
    confirmed,          \* lookupConnection's local `confirmed`: "unasked" | "true" | "false"
    connection,         \* createDatabase's local `connection`
    typed,              \* name prompt: the last value handed to validateInput
    validationMessage,  \* name prompt: what validateInput answered for it
    dbName,             \* createDatabase's local `dbName`
    tempUri,            \* doCreateDatabase's local `tempUri`
    connected,          \* result of the connect step: "unset" | "true" | "false"
    statusLog,          \* operation.updateStatus calls, in order
    notifications,      \* showInformationMessage / showErrorMessage calls, in order
    calls,              \* number of host calls made per invocation
    statement,          \* the query text handed to runQueryAndReturn
    received,           \* what the statement step got back from the host
    released,           \* how the release call (disconnect / dispose) ended
    fgResult,           \* settlement of the createDatabase promise
    opResult,           \* settlement of the doCreateDatabase promise
    timedOut,           \* errorOnTimeout's timer fired and won the race
    lateTimer,          \* errorOnTimeout's timer fired after the race was decided
    requests,           \* host: state of the connect request per uri
    completions,        \* host: connection ids of the completion events delivered, per uri
    liveSessions,       \* host: uris with a live server-side session
    disconnects         \* host: disconnect(uri) calls received, per uri

shared == <<variant, dbCreator, listeners, counter, connectionTracker, deferred>>
locals == <<context, confirmed, connection, dbName, tempUri, connected>>
timers == <<timedOut, lateTimer>>
observed == <<statusLog, notifications, calls, statement, received, released, fgResult, opResult, timers>>
host == <<requests, completions, liveSessions, disconnects>>
prompt == <<typed, validationMessage>>
vars == <<shared, pc, locals, prompt, observed, host>>

Init ==
    /\ variant \in Variants
    /\ dbCreator = 0
    /\ listeners = 0
    /\ counter = 0
    /\ connectionTracker = {}
    /\ deferred = [i \in Invocations |-> "none"]
    /\ pc = [i \in Invocations |-> "idle"]
    /\ context = [i \in Invocations |-> [defined |-> FALSE, connectionProfile |-> NoProfile]]
    /\ confirmed = [i \in Invocations |-> "unasked"]
    /\ connection = [i \in Invocations |-> NoProfile]
    /\ typed = [i \in Invocations |-> << >>]
    /\ validationMessage = [i \in Invocations |-> << >>]
    /\ dbName = [i \in Invocations |-> [defined |-> FALSE, value |-> <<>>]]
    /\ tempUri = [i \in Invocations |-> ""]
    /\ connected = [i \in Invocations |-> "unset"]
    /\ statusLog = [i \in Invocations |-> << >>]
    /\ notifications = [i \in Invocations |-> << >>]
    /\ calls = [i \in Invocations |-> NoCalls]
    /\ statement = [i \in Invocations |-> ""]
    /\ received = [i \in Invocations |-> NoReceived]
    /\ released = [i \in Invocations |-> "none"]
    /\ fgResult = [i \in Invocations |-> "none"]
    /\ opResult = [i \in Invocations |-> "none"]
    /\ timedOut = [i \in Invocations |-> FALSE]
    /\ lateTimer = [i \in Invocations |-> FALSE]
    /\ requests = [u \in Uris |-> "none"]
    /\ completions = [u \in Uris |-> << >>]
    /\ liveSessions = {}
    /\ disconnects = [u \in Uris |-> 0]

\* ------------------------------------------------------- small helpers
Called(c, name) == [c EXCEPT ![name] = @ + 1]
Info(text) == [kind |-> "information", message |-> text]
Err(text) == [kind |-> "error", message |-> text]
Status(s, text) == [status |-> s, message |-> text]

NoActiveConnectionMsg == "Cannot create database as no active connection could be found"
ConnectingMsg == "Connecting to database"
ExecutingMsg == "Executing create database query"
FailedToCreateConnectionMsg == "Failed to create connection, canceling create database operation"
FailedToConnectMsg == "Failed to connect, canceling create database operation"
ErrorPrefix == "Error adding database: "
SuccessMsg(name) == "Database " \o Str(name) \o " created. Refresh the Databases node to see it"

\* --------------------------------------------- createDatabase (foreground)

\* (variation: the limit is compared with >=)
validateInput_OffByOne(value) ==
    IF value # << >> /\ Len(value) >= NameLimit
    THEN << "Must be 124 chars or less" >>
    ELSE << >>

\* the validateInput callback of the name prompt: << >> is `undefined`
validateInput(value) ==
    IF value # << >> /\ Len(value) > NameLimit
    THEN << "Must be 124 chars or less" >>
    ELSE << >>

toConnectionProfile(connectionInfo) ==
    IF ~connectionInfo.defined \/ ~connectionInfo.options.defined
    THEN NoProfile
    ELSE [defined |-> TRUE, providerName |-> connectionInfo.providerId,
          id |-> connectionInfo.connectionId, options |-> connectionInfo.options]

\* (variation: the context argument is not consulted)
UsesContext_Ignored(v, ctx) == FALSE

\* the test that opens lookupConnection
UsesContext(v, ctx) ==
    IF v = "azdata" THEN ctx.defined /\ ctx.connectionProfile.defined ELSE ctx.defined

\* the message lookupConnection itself shows before returning (tracker only)
LookupNotifications(v, conn, early) ==
    IF v = "tracker" /\ ~conn.defined /\ ~early THEN << Info(NoActiveConnectionMsg) >> ELSE << >>

\* the `if (!connection)` guard at the top of createDatabase (wrappers only)
GuardNotifications(v, conn) ==
    IF v # "tracker" /\ ~conn.defined THEN << Info(NoActiveConnectionMsg) >> ELSE << >>

\* createDatabase from the return of lookupConnection (value conn; early is
\* the `return undefined` after a declined confirmation) to its next await
ResumeCreateDatabase(i, conn, early, c) ==
    /\ connection' = [connection EXCEPT ![i] = conn]
    /\ notifications' = [notifications EXCEPT ![i] =
            @ \o LookupNotifications(variant, conn, early) \o GuardNotifications(variant, conn)]
    /\ IF ~conn.defined /\ variant # "tracker"
       THEN \* showInformationMessage(...); return
            /\ pc' = [pc EXCEPT ![i] = "end"]
            /\ fgResult' = [fgResult EXCEPT ![i] = "resolved"]
            /\ calls' = [calls EXCEPT ![i] = c]
       ELSE IF ~conn.defined \/ ~conn.options.defined
       THEN \* connection.options['server'] throws a TypeError
            /\ pc' = [pc EXCEPT ![i] = "end"]
            /\ fgResult' = [fgResult EXCEPT ![i] = "rejected"]
            /\ calls' = [calls EXCEPT ![i] = c]
       ELSE /\ pc' = [pc EXCEPT ![i] = "showInputBox"]
            /\ fgResult' = [fgResult EXCEPT ![i] = "pending"]
            /\ calls' = [calls EXCEPT ![i] = Called(c, "showInputBox")]

\* (variation: every invocation constructs a DatabaseCreator)
Construct_Always(creators) == creators + 1

\* extension.ts: if (!dbCreator) { dbCreator = new DatabaseCreator(); }
\* as the number of instances constructed so far
Construct(creators) == IF creators = 0 THEN 1 ELSE creators

\* extension.ts: the command callback, then createDatabase and
\* lookupConnection up to the first await on the host
Command(i, ctx) ==
    /\ pc[i] = "idle"
    /\ \A j \in Invocations : j < i => pc[j] # "idle"
    /\ dbCreator' = Construct(dbCreator)
    /\ listeners' = IF variant = "tracker"
                    THEN listeners + (Construct(dbCreator) - dbCreator) ELSE listeners
    /\ context' = [context EXCEPT ![i] = ctx]
    /\ IF UsesContext(variant, ctx)
       THEN ResumeCreateDatabase(i, ctx.connectionProfile, FALSE, calls[i])
       ELSE /\ pc' = [pc EXCEPT ![i] = "getCurrentConnection"]
            /\ fgResult' = [fgResult EXCEPT ![i] = "pending"]
            /\ calls' = [calls EXCEPT ![i] = Called(@, "getCurrentConnection")]
            /\ UNCHANGED <<connection, notifications>>
    /\ UNCHANGED <<prompt, variant, counter, connectionTracker, deferred, confirmed, dbName, tempUri,
                   connected, statusLog, statement, received, released, opResult, timers, host>>

\* lookupConnection resumes with the active connection
GetCurrentConnectionReturns(i, raw) ==
    /\ pc[i] = "getCurrentConnection"
    /\ LET conn == IF variant = "azdata" THEN toConnectionProfile(raw) ELSE raw IN
       IF conn.defined /\ conn.providerName = mssql
       THEN /\ connection' = [connection EXCEPT ![i] = conn]
            /\ pc' = [pc EXCEPT ![i] = "getCredentials"]
            /\ calls' = [calls EXCEPT ![i] = Called(@, "getCredentials")]
            /\ UNCHANGED <<notifications, fgResult>>
       ELSE ResumeCreateDatabase(i, conn, FALSE, calls[i])
    /\ UNCHANGED <<prompt, shared, context, confirmed, dbName, tempUri, connected, statusLog, statement,
                   received, released, opResult, timers, host>>

\* Object.assign(connection.options, credentials), then verifyConnectionIsCorrect
GetCredentialsReturns(i, credentials) ==
    /\ pc[i] = "getCredentials"
    /\ connection' = [connection EXCEPT ![i].options.password = credentials.password]
    /\ pc' = [pc EXCEPT ![i] = "showQuickPick"]
    /\ calls' = [calls EXCEPT ![i] = Called(@, "showQuickPick")]
    /\ UNCHANGED <<prompt, shared, context, confirmed, dbName, tempUri, connected, statusLog, notifications,
                   statement, received, released, fgResult, opResult, timers, host>>

\* verifyConnectionIsCorrect: confirmed && confirmed.value === true
Confirmed(item) == item.defined /\ item.value = TRUE

QuickPickReturns(i, item) ==
    /\ pc[i] = "showQuickPick"
    /\ confirmed' = [confirmed EXCEPT ![i] = IF Confirmed(item) THEN "true" ELSE "false"]
    /\ IF Confirmed(item)
       THEN ResumeCreateDatabase(i, connection[i], FALSE, calls[i])
       ELSE ResumeCreateDatabase(i, NoProfile, TRUE, calls[i])
    /\ UNCHANGED <<prompt, shared, context, dbName, tempUri, connected, statusLog, statement,
                   received, released, opResult, timers, host>>

\* (variation: only a cancelled prompt is taken as "no name")
NoName_CancelledOnly(input) == ~input.defined

\* if (!dbName): undefined (cancelled) or the empty string
NoName(input) == ~input.defined \/ input.value = << >>

\* the user types a value the validator turns down: the prompt shows the
\* message and stays open
InputBoxRejects(i, input) ==
    /\ pc[i] = "showInputBox"
    /\ input.defined
    /\ validateInput(input.value) # << >>
    /\ typed' = [typed EXCEPT ![i] = input.value]
    /\ validationMessage' = [validationMessage EXCEPT ![i] = validateInput(input.value)]
    /\ UNCHANGED <<shared, pc, locals, observed, host>>

\* the name prompt answers; the host only accepts a value the validator passes
InputBoxReturns(i, input) ==
    /\ pc[i] = "showInputBox"
    /\ validateInput(input.value) = << >>
    /\ typed' = [typed EXCEPT ![i] = IF input.defined THEN input.value ELSE @]
    /\ validationMessage' = [validationMessage EXCEPT ![i] =
            IF input.defined THEN validateInput(input.value) ELSE @]
    /\ dbName' = [dbName EXCEPT ![i] = input]
    /\ fgResult' = [fgResult EXCEPT ![i] = "resolved"]
    /\ IF NoName(input)
       THEN /\ pc' = [pc EXCEPT ![i] = "end"]
            /\ UNCHANGED calls
       ELSE /\ pc' = [pc EXCEPT ![i] = "operation"]
            /\ calls' = [calls EXCEPT ![i] = Called(@, "startBackgroundOperation")]
    /\ UNCHANGED <<shared, context, confirmed, connection, tempUri, connected, statusLog, notifications,
                   statement, received, released, opResult, timers, host>>

\* ------------------------------------------- doCreateDatabase (background)

\* (variation: the record is not there yet when the request is issued)
TrackerSet_Late(tracker, uri, i) == tracker

\* connectionTracker.set / delete / get, the map as a set of <<uri, owner>>
TrackerSet(tracker, uri, i) == { p \in tracker : p[1] # uri } \cup { <<uri, i>> }

\* (variation: the record is left in the map)
TrackerDelete_Keeps(tracker, uri) == tracker

TrackerDelete(tracker, uri) == { p \in tracker : p[1] # uri }
Tracked(uri) == \E p \in connectionTracker : p[1] = uri

\* (variation: replace without the g flag, only the first ']' is doubled)
Escape_FirstOnly(name) ==
    IF \E k \in 1..Len(name) : name[k] = "]"
    THEN LET first == CHOOSE k \in 1..Len(name) :
                          name[k] = "]" /\ \A j \in 1..(k - 1) : name[j] # "]"
         IN SubSeq(name, 1, first) \o << "]" >> \o SubSeq(name, first + 1, Len(name))
    ELSE name

\* dbName.replace(/]/g, "]]")
RECURSIVE Escape(_)
Escape(name) ==
    IF Len(name) = 0 THEN << >>
    ELSE IF Len(name) = 1 THEN (IF name[1] = "]" THEN << "]", "]" >> ELSE << name[1] >>)
    ELSE Escape(SubSeq(name, 1, Len(name) \div 2)) \o
         Escape(SubSeq(name, Len(name) \div 2 + 1, Len(name)))

\* the CREATE DATABASE line of the query template
CreateDatabaseLine(name) == "CREATE DATABASE [" \o Str(Escape(name)) \o "]"

TypeError(text) == [thrown |-> TRUE, isError |-> TRUE, message |-> text, value |-> ""]

\* (variation: the first cell is read before the column name is looked at)
StatementError_ReadsRowFirst(result) ==
    IF Len(result.columnInfo) = 0
    THEN TypeError("Cannot read property 'columnName' of undefined")
    ELSE IF Len(result.rows) = 0
    THEN TypeError("Cannot read property '0' of undefined")
    ELSE IF Len(result.rows[1]) = 0
    THEN TypeError("Cannot read property 'displayValue' of undefined")
    ELSE IF result.columnInfo[1] # "ErrorMessage" THEN NoThrow
    ELSE [thrown |-> TRUE, isError |-> TRUE, message |-> result.rows[1][1], value |-> ""]

\* what inspecting the result throws: result.columnInfo[0].columnName === 'ErrorMessage'
\* then throw new Error(result.rows[0][0].displayValue)
StatementError(result) ==
    IF Len(result.columnInfo) = 0
    THEN TypeError("Cannot read property 'columnName' of undefined")
    ELSE IF result.columnInfo[1] # "ErrorMessage" THEN NoThrow
    ELSE IF Len(result.rows) = 0
    THEN TypeError("Cannot read property '0' of undefined")
    ELSE IF Len(result.rows[1]) = 0
    THEN TypeError("Cannot read property 'displayValue' of undefined")
    ELSE [thrown |-> TRUE, isError |-> TRUE, message |-> result.rows[1][1], value |-> ""]

\* (variation: the thrown value is used as it is, also when it is an Error)
ErrorString_Value(error) == error.value

\* error instanceof Error ? error.message : error
ErrorString(error) == IF error.isError THEN error.message ELSE error.value

\* the catch block: one error notification and one Failed status
CatchNotifications(error) == << Err(ErrorPrefix \o ErrorString(error)) >>
CatchStatus(error) == << Status("Failed", ErrorPrefix \o ErrorString(error)) >>

\* the `if (!connected)` branch: a notification, no status update
NotConnectedNotifications(v) ==
    << Err(IF v = "tracker" THEN FailedToCreateConnectionMsg ELSE FailedToConnectMsg) >>
NotConnectedStatus(v) == << >>

\* the tail of the try block after the statement came back without a throw
SuccessStatus(name) == << Status("Succeeded", SuccessMsg(name)) >>
SuccessNotifications(name) == << Info(SuccessMsg(name)) >>

\* (variation: success is reported before the result is inspected)
StatementStatus_ReportFirst(name, result) ==
    SuccessStatus(name) \o
    (IF StatementError(result).thrown THEN CatchStatus(StatementError(result)) ELSE << >>)

\* the status updates made from the statement's return to the end of try/catch:
\* the result is inspected before success is reported
StatementStatus(name, result) ==
    IF StatementError(result).thrown
    THEN CatchStatus(StatementError(result))
    ELSE SuccessStatus(name)

StatementNotifications(name, result) ==
    IF StatementError(result).thrown
    THEN CatchNotifications(StatementError(result))
    ELSE SuccessNotifications(name)

\* (variation: the release is not guarded by `connected`)
ReleaseCalls_Unguarded(v, isConnected) == 1

\* the finally block: how many release calls it makes
ReleaseCalls(v, isConnected) ==
    IF v = "tracker" THEN (IF isConnected THEN 1 ELSE 0) ELSE 1

\* the end of doCreateDatabase: the updates of the branch taken, then finally
CompleteOperation(i, isConnected, statuses, notes) ==
    /\ statusLog' = [statusLog EXCEPT ![i] = @ \o statuses]
    /\ notifications' = [notifications EXCEPT ![i] = @ \o notes]
    /\ LET n == ReleaseCalls(variant, isConnected) IN
        /\ calls' = [calls EXCEPT ![i].release = @ + n]
        /\ disconnects' = IF variant = "tracker" /\ n > 0
                          THEN [disconnects EXCEPT ![tempUri[i]] = @ + n]
                          ELSE disconnects
        /\ \E rel \in (IF n > 0 THEN ReleaseOutcomes ELSE {"none"}) :
              /\ released' = [released EXCEPT ![i] = rel]
              /\ opResult' = [opResult EXCEPT ![i] =
                      IF rel = "throws" THEN "rejected" ELSE "resolved"]
    /\ pc' = [pc EXCEPT ![i] = "end"]

\* (variation: the statement is submitted whatever the connect step answered)
AfterConnect_NoCheck(i, isConnected) ==
    /\ connected' = [connected EXCEPT ![i] = IF isConnected THEN "true" ELSE "false"]
    /\ statusLog' = [statusLog EXCEPT ![i] = Append(@, Status("InProgress", ExecutingMsg))]
    /\ statement' = [statement EXCEPT ![i] = CreateDatabaseLine(dbName[i].value)]
    /\ calls' = [calls EXCEPT ![i] = Called(@, "runQueryAndReturn")]
    /\ pc' = [pc EXCEPT ![i] = "query"]
    /\ UNCHANGED <<notifications, released, opResult, disconnects>>

\* doCreateDatabase once the connect step has produced its boolean
AfterConnect(i, isConnected) ==
    /\ connected' = [connected EXCEPT ![i] = IF isConnected THEN "true" ELSE "false"]
    /\ IF isConnected
       THEN /\ statusLog' = [statusLog EXCEPT ![i] = Append(@, Status("InProgress", ExecutingMsg))]
            /\ statement' = [statement EXCEPT ![i] = CreateDatabaseLine(dbName[i].value)]
            /\ calls' = [calls EXCEPT ![i] = Called(@, "runQueryAndReturn")]
            /\ pc' = [pc EXCEPT ![i] = "query"]
            /\ UNCHANGED <<notifications, released, opResult, disconnects>>
       ELSE /\ CompleteOperation(i, FALSE, NotConnectedStatus(variant),
                                 NotConnectedNotifications(variant))
            /\ UNCHANGED statement

\* the host starts the operation: doCreateDatabase up to its first await
StartOperation(i) ==
    /\ pc[i] = "operation"
    /\ opResult' = [opResult EXCEPT ![i] = "pending"]
    /\ statusLog' = [statusLog EXCEPT ![i] = Append(@, Status("InProgress", ConnectingMsg))]
    /\ calls' = [calls EXCEPT ![i] = Called(@, "connect")]
    /\ IF variant = "tracker"
       THEN /\ tempUri' = [tempUri EXCEPT ![i] = Uri(counter)]
            /\ counter' = counter + 1
            /\ connected' = [connected EXCEPT ![i] = "false"]
            /\ deferred' = [deferred EXCEPT ![i] = "pending"]
            /\ connectionTracker' = TrackerSet(connectionTracker, Uri(counter), i)
            /\ requests' = [requests EXCEPT ![Uri(counter)] = "sent"]
            /\ pc' = [pc EXCEPT ![i] = "connect"]
       ELSE /\ pc' = [pc EXCEPT ![i] = "tryConnect"]
            /\ UNCHANGED <<tempUri, counter, connected, deferred, connectionTracker, requests>>
    /\ UNCHANGED <<prompt, variant, dbCreator, listeners, context, confirmed, connection, dbName, notifications,
                   statement, received, released, fgResult, timers,
                   completions, liveSessions, disconnects>>

\* tracker: connectionProvider.connect answers; doConnect goes on to the race
ConnectReturns(i, connectRequested) ==
    /\ pc[i] = "connect"
    /\ connectRequested \/ completions[tempUri[i]] = << >>
    /\ requests' = [requests EXCEPT ![tempUri[i]] =
            IF connectRequested THEN "accepted" ELSE "rejected"]
    /\ IF ~connectRequested
       THEN /\ connectionTracker' = TrackerDelete(connectionTracker, tempUri[i])
            /\ AfterConnect(i, FALSE)
       ELSE /\ UNCHANGED connectionTracker
            /\ IF deferred[i] = "pending"
               THEN /\ pc' = [pc EXCEPT ![i] = "race"]
                    /\ UNCHANGED <<connected, statusLog, notifications, calls, statement,
                                   released, opResult, disconnects>>
               ELSE AfterConnect(i, deferred[i] = "resolved")
    /\ UNCHANGED <<prompt, variant, dbCreator, listeners, counter, deferred, context, confirmed, connection,
                   dbName, tempUri, received, fgResult, timers, completions, liveSessions>>

\* tracker: connectionProvider.connect throws; nothing in doConnect catches it
ConnectThrows(i, error) ==
    /\ pc[i] = "connect"
    /\ completions[tempUri[i]] = << >>
    /\ requests' = [requests EXCEPT ![tempUri[i]] = "rejected"]
    /\ CompleteOperation(i, FALSE, CatchStatus(error), CatchNotifications(error))
    /\ UNCHANGED <<prompt, shared, locals, statement, received, fgResult, timers,
                   completions, liveSessions>>

\* tracker: errorOnTimeout's timer fires while the race is undecided
Timeout(i) ==
    /\ pc[i] = "race"
    /\ deferred[i] = "pending"
    /\ timedOut' = [timedOut EXCEPT ![i] = TRUE]
    /\ UNCHANGED lateTimer
    /\ AfterConnect(i, FALSE)
    /\ UNCHANGED <<prompt, shared, context, confirmed, connection, dbName, tempUri, received, fgResult,
                   requests, completions, liveSessions>>

\* tracker: errorOnTimeout's timer fires once the race has been decided by a
\* completion event: the reject of a promise whose race is over does nothing
LateTimeout(i) ==
    /\ variant = "tracker" /\ tempUri[i] # ""
    /\ pc[i] \in {"query", "end"}
    /\ requests[tempUri[i]] = "accepted"
    /\ ~timedOut[i] /\ ~lateTimer[i]
    /\ lateTimer' = [lateTimer EXCEPT ![i] = TRUE]
    /\ UNCHANGED <<prompt, shared, pc, locals, statusLog, notifications, calls, statement, received,
                   released, fgResult, opResult, timedOut, host>>

\* the host's side of the connect protocol: a completion event answers a
\* request that was issued and not refused, and a session that was reported
\* failed is not reported live afterwards
HostMayDeliver(summary) ==
    /\ Len(completions[summary.ownerUri]) < MaxEvents
    /\ summary.ownerUri = ForeignUri \/ requests[summary.ownerUri] \in {"sent", "accepted"}
    /\ summary.connectionId # "" =>
          \A k \in 1..Len(completions[summary.ownerUri]) : completions[summary.ownerUri][k] # ""

\* (variation: the listener resolves whatever the event carries)
Settlement_AlwaysResolve(summary) == "resolved"

\* the listener's choice: resolve() when summary.connectionId is truthy,
\* reject(summary.errorMessage) otherwise
Settlement(summary) == IF summary.connectionId # "" THEN "resolved" ELSE "rejected"

\* tracker: the listener registered by initConnectionProvider, and the
\* continuation of the doConnect it settles
OnConnectionComplete(summary) ==
    /\ listeners > 0
    /\ HostMayDeliver(summary)
    /\ completions' = [completions EXCEPT ![summary.ownerUri] = Append(@, summary.connectionId)]
    /\ liveSessions' = IF summary.connectionId # ""
                       THEN liveSessions \cup {summary.ownerUri} ELSE liveSessions
    /\ connectionTracker' = TrackerDelete(connectionTracker, summary.ownerUri)
    /\ IF Tracked(summary.ownerUri)
       THEN LET i == (CHOOSE p \in connectionTracker : p[1] = summary.ownerUri)[2]
                settled == Settlement(summary)
            IN /\ deferred' = [deferred EXCEPT ![i] = IF @ = "pending" THEN settled ELSE @]
               /\ IF pc[i] = "race" /\ deferred[i] = "pending"
                  THEN AfterConnect(i, settled = "resolved")
                  ELSE UNCHANGED <<pc, connected, statusLog, notifications, calls, statement,
                                  released, opResult, disconnects>>
       ELSE UNCHANGED <<deferred, pc, connected, statusLog, notifications, calls, statement,
                       released, opResult, disconnects>>
    /\ UNCHANGED <<prompt, variant, dbCreator, listeners, counter, context, confirmed, connection, dbName,
                   tempUri, received, fgResult, timers, requests>>

\* wrappers: connectionContext.tryConnect answers
TryConnectReturns(i, ok) ==
    /\ pc[i] = "tryConnect"
    /\ AfterConnect(i, ok)
    /\ UNCHANGED <<prompt, shared, context, confirmed, connection, dbName, tempUri, received, fgResult,
                   timers, requests, completions, liveSessions>>

\* wrappers: connectionContext.tryConnect throws
TryConnectThrows(i, error) ==
    /\ pc[i] = "tryConnect"
    /\ CompleteOperation(i, FALSE, CatchStatus(error), CatchNotifications(error))
    /\ UNCHANGED <<prompt, shared, locals, statement, received, fgResult, timers,
                   requests, completions, liveSessions>>

\* the statement comes back with a result set
QueryReturns(i, result) ==
    /\ pc[i] = "query"
    /\ received' = [received EXCEPT ![i] = [kind |-> "result", result |-> result, error |-> NoThrow]]
    /\ CompleteOperation(i, TRUE, StatementStatus(dbName[i].value, result),
                         StatementNotifications(dbName[i].value, result))
    /\ UNCHANGED <<prompt, shared, locals, statement, fgResult, timers,
                   requests, completions, liveSessions>>

\* the statement call throws / rejects
QueryThrows(i, error) ==
    /\ pc[i] = "query"
    /\ received' = [received EXCEPT ![i] = [kind |-> "thrown", result |-> NoResult, error |-> error]]
    /\ CompleteOperation(i, TRUE, CatchStatus(error), CatchNotifications(error))
    /\ UNCHANGED <<prompt, shared, locals, statement, fgResult, timers,
                   requests, completions, liveSessions>>

\* one command invocation, every input the host and the user can supply
Next ==
    \/ \E ctx \in Contexts : Command(1, ctx)
    \/ \E raw \in (IF variant = "azdata" THEN AzdataConnections ELSE CurrentConnections) :
          GetCurrentConnectionReturns(1, raw)
    \/ \E credentials \in Credentials : GetCredentialsReturns(1, credentials)
    \/ \E item \in QuickPickItems : QuickPickReturns(1, item)
    \/ \E input \in NameInputs : InputBoxRejects(1, input)
    \/ \E input \in NameInputs : InputBoxReturns(1, input)
    \/ StartOperation(1)
    \/ \E b \in BOOLEAN : ConnectReturns(1, b)
    \/ \E e \in ThrownValues : ConnectThrows(1, e)
    \/ Timeout(1)
    \/ LateTimeout(1)
    \/ \E summary \in Summaries : OnConnectionComplete(summary)
    \/ \E b \in BOOLEAN : TryConnectReturns(1, b)
    \/ \E e \in ThrownValues : TryConnectThrows(1, e)
    \/ \E r \in QueryResults : QueryReturns(1, r)
    \/ \E e \in ThrownValues : QueryThrows(1, e)

Spec == Init /\ [][Next]_vars

\* several command invocations interleaved, from the context menu, with one
\* representative of each host answer
FewResults ==
    { [columnInfo |-> <<"NoError">>, rows |-> << <<"1">> >>],
      [columnInfo |-> <<"ErrorMessage">>, rows |-> << <<"database already exists">> >>] }
FewNames == { [defined |-> TRUE, value |-> <<"a", "]", "b">>] }
FewContexts == { [defined |-> TRUE,  connectionProfile |-> ExplorerProfile] }

NextConcurrent ==
    \/ \E i \in Invocations, ctx \in FewContexts : Command(i, ctx)
    \/ \E i \in Invocations, input \in FewNames : InputBoxReturns(i, input)
    \/ \E i \in Invocations : StartOperation(i)
    \/ \E i \in Invocations, b \in BOOLEAN : ConnectReturns(i, b)
    \/ \E i \in Invocations : Timeout(i)
    \/ \E summary \in Summaries : OnConnectionComplete(summary)
    \/ \E i \in Invocations, b \in BOOLEAN : TryConnectReturns(i, b)
    \/ \E i \in Invocations, r \in FewResults : QueryReturns(i, r)

SpecConcurrent == Init /\ [][NextConcurrent]_vars

\* ===================================================================
\* Properties
\* ===================================================================
Last(seq) == seq[Len(seq)]
IsTerminal(update) == update.status \in {"Succeeded", "Failed"}
Finished(i) == pc[i] = "end" /\ opResult[i] \in {"resolved", "rejected"}
Shown(i, note) == \E k \in 1..Len(notifications[i]) : notifications[i][k] = note
TimesShown(i, note) == Cardinality({ k \in 1..Len(notifications[i]) : notifications[i][k] = note })

\* C1: in the event-correlation variant, when the connect request was accepted
\* and the 15 second timeout fired before any completion event, doConnect has
\* answered not-connected and the token's record is gone from connectionTracker
\* (stated at the moment doConnect has returned: no completion event yet).
C1_TimeoutRemovesRecord ==
    \A i \in Invocations :
        (variant = "tracker" /\ timedOut[i] /\ completions[tempUri[i]] = << >>)
            => (connected[i] = "false" /\ ~Tracked(tempUri[i]))

\* C2: in the event-correlation variant, a token whose completion event carried
\* a connection id (a live session) has been disconnected by the time its run
\* is over; after that point nothing can issue the disconnect any more.
C2_NoDanglingSession ==
    \A i \in Invocations :
        (variant = "tracker" /\ Finished(i) /\ tempUri[i] \in liveSessions)
            => disconnects[tempUri[i]] >= 1

\* C3: every run of doCreateDatabase that is over has reported a terminal
\* status (Succeeded or Failed) as its last status update, and a failed
\* connect step comes with a Failed status and an error notification.
C3_TerminalStatusReported ==
    \A i \in Invocations :
        Finished(i) =>
            /\ Len(statusLog[i]) > 0
            /\ IsTerminal(Last(statusLog[i]))
            /\ connected[i] # "true" =>
                  /\ Last(statusLog[i]).status = "Failed"
                  /\ \E k \in 1..Len(notifications[i]) : notifications[i][k].kind = "error"

\* C4: a run whose connect step reported connected makes exactly one release
\* call by the time it is over (however it ends) and none before; no run
\* makes more than one; in the event-correlation variant a run whose connect
\* step did not report connected never disconnects.
C4_CleanupExactlyOnce ==
    \A i \in Invocations :
        /\ calls[i].release <= 1
        /\ (connected[i] = "true" /\ Finished(i)) => calls[i].release = 1
        /\ (connected[i] = "true" /\ ~Finished(i)) => calls[i].release = 0
        /\ (variant = "tracker" /\ tempUri[i] # "") =>
              disconnects[tempUri[i]] = (IF connected[i] = "true" /\ Finished(i) THEN 1 ELSE 0)
        /\ (variant = "tracker" /\ connected[i] # "true") => calls[i].release = 0

\* a connected run that ended in Failed because the statement call threw
C4_Witness ==
    \E i \in Invocations :
        /\ Finished(i) /\ connected[i] = "true" /\ received[i].kind = "thrown"
        /\ Last(statusLog[i]).status = "Failed" /\ calls[i].release = 1

\* C5: the status updates of one run are InProgress 'Connecting to database',
\* then optionally InProgress 'Executing create database query', then at most
\* one terminal status, which is the last update of the run.
C5_StatusMonotonic ==
    \A i \in Invocations :
        LET log == statusLog[i] IN
        /\ Len(log) <= 3
        /\ Len(log) >= 1 => log[1] = Status("InProgress", ConnectingMsg)
        /\ \A k \in 2..Len(log) :
              \/ k = 2 /\ log[k] = Status("InProgress", ExecutingMsg)
              \/ k = Len(log) /\ IsTerminal(log[k])
        /\ Cardinality({ k \in 1..Len(log) : IsTerminal(log[k]) }) <= 1

\* a run that went through both InProgress updates and then reported Failed
C5_Witness ==
    \E i \in Invocations :
        /\ Len(statusLog[i]) = 3
        /\ statusLog[i][2] = Status("InProgress", ExecutingMsg)
        /\ statusLog[i][3].status = "Failed"

\* C6: after the confirmation prompt was answered 'No' or dismissed, the
\* invocation makes no connect request, runs no statement, starts no
\* background operation and shows no notification.
C6_DeclineIsSilent ==
    \A i \in Invocations :
        confirmed[i] = "false" =>
            /\ calls[i].connect = 0
            /\ calls[i].runQueryAndReturn = 0
            /\ calls[i].startBackgroundOperation = 0
            /\ notifications[i] = << >>

\* C7: when lookupConnection yields no connection on the global path (no
\* active connection, or the confirmation declined), createDatabase resolves
\* (nothing is thrown), no name prompt, connect request or background
\* operation follows, and when there was no active connection the 'no active
\* connection' information message is shown exactly once.
C7_NoConnectionNeverThrows ==
    \A i \in Invocations :
        (pc[i] = "end" /\ ~connection[i].defined /\ calls[i].getCurrentConnection = 1) =>
            /\ fgResult[i] = "resolved"
            /\ calls[i].showInputBox = 0
            /\ calls[i].connect = 0
            /\ calls[i].startBackgroundOperation = 0
            /\ (calls[i].getCurrentConnection = 1 /\ confirmed[i] = "unasked") =>
                  TimesShown(i, Info(NoActiveConnectionMsg)) = 1

\* C8: on the command-palette path (no context argument) the name prompt, the
\* background operation, the connect request and the statement only happen
\* after the confirmation prompt was answered 'Yes'.
C8_PaletteConfirmsFirst ==
    \A i \in Invocations :
        (pc[i] # "idle" /\ ~context[i].defined /\
         (calls[i].showInputBox > 0 \/ calls[i].startBackgroundOperation > 0 \/
          calls[i].connect > 0 \/ calls[i].runQueryAndReturn > 0))
            => confirmed[i] = "true"

\* C9: with a context argument that carries a connection profile, the
\* connection used is exactly that profile, neither getCurrentConnection,
\* getCredentials nor the confirmation prompt is called, and the name prompt
\* is shown straight away, before any notification.
C9_ContextProfileUsedDirectly ==
    \A i \in Invocations :
        (pc[i] # "idle" /\ context[i].defined /\ context[i].connectionProfile.defined) =>
            /\ connection[i] = context[i].connectionProfile
            /\ calls[i].getCurrentConnection = 0
            /\ calls[i].getCredentials = 0
            /\ calls[i].showQuickPick = 0
            /\ confirmed[i] = "unasked"
            /\ calls[i].showInputBox = 1
            /\ pc[i] = "showInputBox" => notifications[i] = << >>

\* the context-menu path waiting at the name prompt
C9_Witness ==
    \E i \in Invocations :
        /\ pc[i] = "showInputBox"
        /\ context[i].defined /\ context[i].connectionProfile = ExplorerProfile
        /\ connection[i] = ExplorerProfile

\* C10: when the statement's result has 'ErrorMessage' as the name of its
\* first column (and a first cell to read), whatever else it holds, the run
\* reports Failed with 'Error adding database: ' followed by that cell's
\* display value, shows exactly that text as an error notification, shows no
\* information notification, and still makes its release call.
C10_StatementFailureVerbatim ==
    \A i \in Invocations :
        LET result == received[i].result IN
        (/\ received[i].kind = "result"
         /\ Len(result.columnInfo) >= 1 /\ result.columnInfo[1] = "ErrorMessage"
         /\ Len(result.rows) >= 1 /\ Len(result.rows[1]) >= 1) =>
            LET msg == ErrorPrefix \o result.rows[1][1] IN
            /\ Last(statusLog[i]) = Status("Failed", msg)
            /\ notifications[i] = << Err(msg) >>
            /\ calls[i].release = 1

\* a failed statement whose result has further columns and rows
C10_Witness ==
    \E i \in Invocations :
        /\ received[i].kind = "result"
        /\ received[i].result.columnInfo = <<"ErrorMessage", "Extra">>
        /\ Len(received[i].result.rows) = 2
        /\ Last(statusLog[i]) = Status("Failed", "Error adding database: permission denied")

\* C11: when the statement's result has a first column named anything but
\* 'ErrorMessage', whatever its rows (none at all included), the run reports
\* Succeeded with 'Database {name} created. Refresh the Databases node to see
\* it', shows that text as its one information notification, and shows no
\* error notification.
C11_OtherColumnMeansSuccess ==
    \A i \in Invocations :
        LET result == received[i].result IN
        (/\ received[i].kind = "result"
         /\ Len(result.columnInfo) >= 1 /\ result.columnInfo[1] # "ErrorMessage") =>
            LET msg == "Database " \o Str(dbName[i].value) \o
                       " created. Refresh the Databases node to see it" IN
            /\ Last(statusLog[i]) = Status("Succeeded", msg)
            /\ notifications[i] = << Info(msg) >>

\* a run that succeeded on a 'NoError' result without any row
C11_Witness ==
    \E i \in Invocations :
        /\ received[i].kind = "result"
        /\ received[i].result = [columnInfo |-> <<"NoError">>, rows |-> << >>]
        /\ Last(statusLog[i]).status = "Succeeded"

\* C12: a release call that fails, by throwing or by rejecting, changes
\* nothing the run already reported and does not make doCreateDatabase
\* reject: the operation's promise resolves.
C12_ReleaseErrorsSwallowed ==
    \A i \in Invocations :
        released[i] \in {"rejects", "throws"} => opResult[i] = "resolved"

\* the number of ']' among the first k characters of a name
Closes(name, k) == Cardinality({ j \in 1..k : name[j] = "]" })
NotClose(c) == c # "]"

\* C13: the CREATE DATABASE line of the statement a run submits is
\* '[' + the name with every ']' doubled + ']': the escaped name holds twice
\* as many ']' as the name, and character k of the name stands in it after
\* the k-1 characters before it and one more place per ']' among them, a ']'
\* taking two places; the other characters are unchanged and in the same order.
C13_ClosingBracketDoubled ==
    \A i \in Invocations :
        calls[i].runQueryAndReturn > 0 =>
            \A name \in {dbName[i].value} : \A escaped \in {Escape(name)} :
            /\ statement[i] = "CREATE DATABASE [" \o Str(escaped) \o "]"
            /\ Len(escaped) = Len(name) + Closes(name, Len(name))
            /\ Closes(escaped, Len(escaped)) = 2 * Closes(name, Len(name))
            /\ SelectSeq(escaped, NotClose) = SelectSeq(name, NotClose)
            /\ \A k \in 1..Len(name) :
                  /\ escaped[k + Closes(name, k - 1)] = name[k]
                  /\ name[k] = "]" => escaped[k + Closes(name, k - 1) + 1] = "]"

\* a statement submitted for a name with two ']' and another character
C13_Witness ==
    \E i \in Invocations :
        /\ dbName[i].value = << "]", "a", "]" >>
        /\ statement[i] = "CREATE DATABASE []]a]]]"

\* C14: the name prompt answers 'Must be 124 chars or less' to every value
\* longer than 124 characters and nothing to a value of 0 to 124 characters;
\* a value it turned down is never taken as the name, so no background
\* operation, connect request or statement ever has a name longer than 124.
C14_NameLengthValidated ==
    \A i \in Invocations :
        /\ Len(typed[i]) > 124 =>
              /\ validationMessage[i] = << "Must be 124 chars or less" >>
              /\ pc[i] \in {"showInputBox", "end"}
              /\ dbName[i].value = << >>
              /\ calls[i].startBackgroundOperation = 0
              /\ calls[i].connect = 0
              /\ calls[i].runQueryAndReturn = 0
        /\ Len(typed[i]) <= 124 => validationMessage[i] = << >>
        /\ Len(dbName[i].value) <= 124

\* a value of 125 characters turned down at the prompt
C14_Witness ==
    \E i \in Invocations :
        /\ Len(typed[i]) = 125
        /\ validationMessage[i] # << >>
        /\ pc[i] = "showInputBox"

\* C15: when the name prompt answers the empty string or is cancelled,
\* createDatabase returns without starting a background operation, without a
\* connect request or statement, and without any notification.
C15_NoNameIsSilent ==
    \A i \in Invocations :
        (calls[i].showInputBox = 1 /\ pc[i] # "showInputBox" /\ dbName[i].value = << >>) =>
            /\ pc[i] = "end"
            /\ fgResult[i] = "resolved"
            /\ calls[i].startBackgroundOperation = 0
            /\ calls[i].connect = 0
            /\ calls[i].runQueryAndReturn = 0
            /\ statusLog[i] = << >>
            /\ notifications[i] = << >>

\* the prompt answered with the empty string (not cancelled)
C15_Witness ==
    \E i \in Invocations :
        /\ calls[i].showInputBox = 1 /\ pc[i] = "end"
        /\ dbName[i] = [defined |-> TRUE, value |-> << >>]

\* C16: interleaved command invocations on the one DatabaseCreator never share
\* a token: any two runs of doCreateDatabase that have taken a token hold
\* different ones, every record in connectionTracker is filed under the token
\* of the run that owns it, and a step that delivers a completion event for a
\* token leaves the record and the deferred of every other token as they were.
C16_TokensNeverCollide ==
    /\ [](\A i, j \in Invocations :
            (i # j /\ tempUri[i] # "" /\ tempUri[j] # "") => tempUri[i] # tempUri[j])
    /\ [](\A p \in connectionTracker : tempUri[p[2]] = p[1])
    /\ [][\A a \in Uris :
            completions'[a] # completions[a] =>
                /\ \A p \in connectionTracker : p[1] # a => p \in connectionTracker'
                /\ \A j \in Invocations : tempUri[j] # a => deferred'[j] = deferred[j]]_vars

\* two runs hold different tokens, the event of the first has been delivered
\* and settled it, and the second is still pending under its own record
C16_Witness ==
    \E i, j \in Invocations :
        /\ i # j /\ tempUri[i] # "" /\ tempUri[j] # "" /\ tempUri[i] # tempUri[j]
        /\ completions[tempUri[i]] # << >> /\ deferred[i] = "resolved"
        /\ completions[tempUri[j]] = << >> /\ deferred[j] = "pending"
        /\ <<tempUri[j], j>> \in connectionTracker

\* C17: in the event-correlation variant the record is in connectionTracker
\* from the moment the connect request is issued: while the request is out and
\* no completion event has come the token is tracked and its deferred pending,
\* and once a completion event for the token has been delivered (even before
\* connect has returned) the deferred is settled as the first event says, so
\* the event was not dropped.
C17_RecordRegisteredBeforeRequest ==
    \A i \in Invocations :
        (variant = "tracker" /\ tempUri[i] # "") =>
            /\ (requests[tempUri[i]] = "sent" /\ completions[tempUri[i]] = << >>) =>
                    (<<tempUri[i], i>> \in connectionTracker /\ deferred[i] = "pending")
            /\ completions[tempUri[i]] # << >> =>
                    deferred[i] = (IF completions[tempUri[i]][1] # "" THEN "resolved" ELSE "rejected")

\* the completion event came while connect had not yet returned, and settled
\* the deferred
C17_Witness ==
    \E i \in Invocations :
        /\ variant = "tracker" /\ pc[i] = "connect" /\ requests[tempUri[i]] = "sent"
        /\ completions[tempUri[i]] = << "conn1" >> /\ deferred[i] = "resolved"

\* C18: in the event-correlation variant, when the request was accepted and a
\* completion event for the token arrived before the timeout, the connect step
\* answers connected exactly when the (first) event carries a connectionId:
\* with one the statement is submitted, without one the failure is shown and
\* no statement is submitted; in both cases the token's record is gone.
C18_CompletionOutcomeMapping ==
    \A i \in Invocations :
        (/\ variant = "tracker" /\ tempUri[i] # ""
         /\ requests[tempUri[i]] = "accepted" /\ ~timedOut[i]
         /\ completions[tempUri[i]] # << >>) =>
            /\ connected[i] = (IF completions[tempUri[i]][1] # "" THEN "true" ELSE "false")
            /\ ~Tracked(tempUri[i])
            /\ connected[i] = "true" => calls[i].runQueryAndReturn = 1
            /\ connected[i] = "false" =>
                    /\ calls[i].runQueryAndReturn = 0
                    /\ pc[i] = "end"
                    /\ notifications[i] = << Err(FailedToCreateConnectionMsg) >>

\* an accepted request answered by an event without connectionId
C18_Witness ==
    \E i \in Invocations :
        /\ variant = "tracker" /\ tempUri[i] # ""
        /\ requests[tempUri[i]] = "accepted" /\ ~timedOut[i]
        /\ completions[tempUri[i]] = << "" >>
        /\ deferred[i] = "rejected" /\ connected[i] = "false" /\ pc[i] = "end"

\* C19: in the event-correlation variant, when the host refuses the connect
\* request at the call (connect answers false, or connect throws), the token's
\* record is gone from connectionTracker, the run has ended with one error
\* notification, without a timeout, a completion event or a statement, and no
\* disconnect was issued for the token.
C19_RefusedRequestRemovesRecord ==
    \A i \in Invocations :
        (variant = "tracker" /\ tempUri[i] # "" /\ requests[tempUri[i]] = "rejected") =>
            /\ ~Tracked(tempUri[i])
            /\ pc[i] = "end" /\ connected[i] = "false"
            /\ ~timedOut[i] /\ completions[tempUri[i]] = << >>
            /\ Len(notifications[i]) = 1 /\ notifications[i][1].kind = "error"
            /\ calls[i].runQueryAndReturn = 0
            /\ disconnects[tempUri[i]] = 0 /\ calls[i].release = 0

\* C20: one run makes at most one connect request and submits at most one
\* statement; a statement was submitted only if the connect step answered
\* connected, never after a not-connected answer or before the connect
\* request; and a release call was made only once the statement step had
\* come back or had been skipped, at the end of the run.
C20_NoRetriesStrictOrder ==
    \A i \in Invocations :
        /\ calls[i].connect <= 1
        /\ calls[i].runQueryAndReturn <= 1
        /\ calls[i].runQueryAndReturn > 0 => (calls[i].connect = 1 /\ connected[i] = "true")
        /\ connected[i] # "true" => (calls[i].runQueryAndReturn = 0 /\ statement[i] = "")
        /\ pc[i] = "query" => (calls[i].release = 0 /\ received[i].kind = "none")
        /\ calls[i].release > 0 =>
                /\ pc[i] = "end"
                /\ calls[i].connect = 1
                /\ calls[i].runQueryAndReturn = 0 \/ received[i].kind # "none"

\* a run whose connect step answered not-connected: no statement, then the
\* release call of the wrapper
C20_Witness ==
    \E i \in Invocations :
        /\ pc[i] = "end" /\ connected[i] = "false"
        /\ calls[i].connect = 1 /\ calls[i].runQueryAndReturn = 0 /\ calls[i].release = 1

\* C21: in the event-correlation variant the connect step is settled once:
\* its answer is not-connected when the timeout came first and what the first
\* completion event says otherwise, and once given it never changes, whatever
\* event or timer comes later; a deferred that is settled stays as it is; the
\* first completion event of a token removes its record, so a second event for
\* the token, like an event for a token without a record, finds none, and a
\* step that delivers such an event changes nothing of the program: not
\* connectionTracker, no deferred, no run's position, answer or reports.
C21_SettledExactlyOnce ==
    /\ [](\A a \in Uris : completions[a] # << >> => ~Tracked(a))
    /\ [](\A i \in Invocations :
            (/\ variant = "tracker" /\ tempUri[i] # ""
             /\ pc[i] \in {"query", "end"} /\ requests[tempUri[i]] = "accepted") =>
                connected[i] = (IF timedOut[i] THEN "false"
                                ELSE IF completions[tempUri[i]][1] # "" THEN "true" ELSE "false"))
    /\ [][\A i \in Invocations :
            /\ deferred[i] \in {"resolved", "rejected"} => deferred'[i] = deferred[i]
            /\ (tempUri[i] # "" /\ pc[i] \in {"query", "end"}) =>
                    (connected'[i] = connected[i] /\ pc'[i] \in {"query", "end"})]_vars
    /\ [][\A a \in Uris :
            (completions'[a] # completions[a] /\ ~Tracked(a)) =>
                UNCHANGED <<shared, pc, locals, prompt, observed>>]_vars

\* the first event connected the run; a second event for the same token and
\* the 15 second timer came afterwards and the answer is still connected
C21_Witness ==
    \E i \in Invocations :
        /\ variant = "tracker" /\ tempUri[i] # ""
        /\ completions[tempUri[i]] = << "conn1", "" >>
        /\ lateTimer[i]
        /\ deferred[i] = "resolved" /\ connected[i] = "true"
        /\ ~Tracked(tempUri[i])

\* C22: whatever the number and interleaving of command invocations, at most
\* one DatabaseCreator is constructed: none before the first invocation, one
\* from the first invocation on; in the event-correlation variant the
\* connection-complete listener is registered once with it (the other variants
\* register none), so every completion event delivered met exactly one handler.
C22_SingleCreator ==
    /\ dbCreator <= 1
    /\ dbCreator = (IF \E i \in Invocations : pc[i] # "idle" THEN 1 ELSE 0)
    /\ listeners = (IF variant = "tracker" THEN dbCreator ELSE 0)
    /\ \A a \in Uris : completions[a] # << >> => listeners = 1

\* two invocations have run on the one instance and a completion event of one
\* of them was handled by the one listener
C22_Witness ==
    \E i, j \in Invocations :
        /\ i # j /\ pc[i] # "idle" /\ pc[j] # "idle"
        /\ variant = "tracker" /\ dbCreator = 1 /\ listeners = 1
        /\ tempUri[i] # "" /\ tempUri[j] # ""
        /\ completions[tempUri[i]] # << >> /\ ~Tracked(tempUri[i])

====
